---- MODULE Spec2Model ----
(***************************************************************************)
(* Model of the transcription tool: the transcript segmenter and speaker   *)
(* extraction of format-gmr.js, and the control flow of the transcribe     *)
(* command line tool.  Strings are sequences of one-character strings.     *)
(***************************************************************************)
EXTENDS Integers, Sequences, FiniteSets, TLC

\* ------------------------------------------------------------------------
\* Bounds of the explored inputs
\* ------------------------------------------------------------------------
MaxLen == 5
MaxLines == 3

\* Characters used to build every text of length at most MaxLen.
Alphabet == {"a", "B", " ", "(", ")", "\n"}

\* Whole lines used to build multi-line transcripts (at most MaxLines lines).
SampleLines ==
    { <<"a", " ", "(", "B", ")">>,
      <<"b", " ", "(", "C", ")">>,
      <<"(", "B", ")">>,
      <<"a">>,
      <<>>,
      <<" ", "\t">>,
      <<" ", "b", " ">>,
      <<"a", " ", "(", "b", " ", "c", ")">>,
      <<"(", "b", " ", "c", ")", " ", "a", " ", "(", "B", ")">>,
      <<"a", " ", "(", "b", " ", "(", "C", ")">>,
      <<"a", "\t", "(", "B", ")", "\r">> }

\* ------------------------------------------------------------------------
\* JavaScript string primitives
\* ------------------------------------------------------------------------
\* The value of a variable that holds null / undefined.
Null == <<"null">>

\* Characters removed by String.prototype.trim and matched by \s.
WhiteSpace == {" ", "\t", "\n", "\r"}

\* Characters the regular expression atom . does not match.
LineTerminator == {"\n", "\r"}

\* UTF-16 code unit of a character (the order used by Array.prototype.sort).
Code(c) ==
    CASE c = "\t" -> 9
      [] c = "\n" -> 10
      [] c = "\r" -> 13
      [] c = " "  -> 32
      [] c = "("  -> 40
      [] c = ")"  -> 41
      [] c = ","  -> 44
      [] c = "B"  -> 66
      [] c = "C"  -> 67
      [] c = "a"  -> 97
      [] c = "b"  -> 98
      [] c = "c"  -> 99

RECURSIVE TrimStart(_)
TrimStart(s) ==
    IF s # <<>> /\ Head(s) \in WhiteSpace THEN TrimStart(Tail(s)) ELSE s

RECURSIVE TrimEnd(_)
TrimEnd(s) ==
    IF s # <<>> /\ s[Len(s)] \in WhiteSpace
    THEN TrimEnd(SubSeq(s, 1, Len(s) - 1))
    ELSE s

Trim(s) == TrimEnd(TrimStart(s))

\* text.split('\n'): the pieces between newlines; "" gives one empty piece.
RECURSIVE SplitFrom(_, _, _)
SplitFrom(text, from, cur) ==
    IF from > Len(text) THEN <<cur>>
    ELSE IF text[from] = "\n"
         THEN <<cur>> \o SplitFrom(text, from + 1, <<>>)
         ELSE SplitFrom(text, from + 1, Append(cur, text[from]))

Split(text) == SplitFrom(text, 1, <<>>)

\* Lexicographic comparison by code unit, as the default sort comparator.
RECURSIVE StrLeq(_, _)
StrLeq(s, t) ==
    IF s = <<>> THEN TRUE
    ELSE IF t = <<>> THEN FALSE
    ELSE IF Head(s) = Head(t) THEN StrLeq(Tail(s), Tail(t))
    ELSE Code(Head(s)) < Code(Head(t))

\* Array.from(set).sort()
RECURSIVE SortSet(_)
SortSet(S) ==
    IF S = {} THEN <<>>
    ELSE LET m == CHOOSE x \in S : \A y \in S : StrLeq(x, y)
         IN  <<m>> \o SortSet(S \ {m})

\* array.join(', ')
RECURSIVE JoinComma(_)
JoinComma(a) ==
    IF a = <<>> THEN <<>>
    ELSE IF Len(a) = 1 THEN a[1]
    ELSE a[1] \o <<",", " ">> \o JoinComma(Tail(a))

\* ------------------------------------------------------------------------
\* extractSpeakers
\* ------------------------------------------------------------------------
\* Index of the first ")" at or after position from, 0 when there is none.
NextClose(text, from) ==
    LET C == {j \in from..Len(text) : text[j] = ")"}
    IN  IF C = {} THEN 0 ELSE CHOOSE j \in C : \A k \in C : j <= k

\* Start of the leftmost match of /\(([^)]+)\)/ at or after from, 0 if none.
NextSpan(text, from) ==
    LET M == {i \in from..Len(text) :
                 /\ text[i] = "("
                 /\ NextClose(text, i + 1) > i + 1}
    IN  IF M = {} THEN 0 ELSE CHOOSE i \in M : \A k \in M : i <= k

\* The filter applied to a captured span before it is added to the set.
SpeakerAccepted(speaker) ==
    speaker # <<>> /\ \A k \in 1..Len(speaker) : speaker[k] # " "

\* The exec loop: collects the accepted spans, resuming after each match.
RECURSIVE ScanSpeakers(_, _, _)
ScanSpeakers(text, from, acc) ==
    LET i == NextSpan(text, from)
    IN  IF i = 0 THEN acc
        ELSE LET j == NextClose(text, i + 1)
                 speaker == SubSeq(text, i + 1, j - 1)
             IN  ScanSpeakers(text, j + 1,
                     IF SpeakerAccepted(speaker) THEN acc \cup {speaker}
                     ELSE acc)

extractSpeakers(text) == JoinComma(SortSet(ScanSpeakers(text, 1, {})))

\* ------------------------------------------------------------------------
\* parseTranscript: the label pattern /^(.+?)\s*\(([^)]+)\)$/
\* ------------------------------------------------------------------------
NoMatch == [matched |-> FALSE, prefix |-> <<>>, token |-> <<>>]

\* Variant: a prefix group that also refuses parentheses, ([^()]+?).
PrefixCharNoParen(c) == c \notin LineTerminator \cup {"(", ")"}

\* The atom . of the prefix group (.+?).
PrefixChar(c) == c \notin LineTerminator

\* The class [^)] of the token group.
TokenChar(c) == c # ")"

\* Number of leading whitespace characters of r (the greedy \s*).
RECURSIVE LeadingSpace(_)
LeadingSpace(r) ==
    IF r # <<>> /\ Head(r) \in WhiteSpace THEN 1 + LeadingSpace(Tail(r)) ELSE 0

\* r matches \s*\(([^)]+)\)$ in full.
TailMatches(r) ==
    LET p == SubSeq(r, LeadingSpace(r) + 1, Len(r))
    IN  /\ Len(p) >= 3
        /\ p[1] = "("
        /\ p[Len(p)] = ")"
        /\ \A m \in 2..(Len(p) - 1) : TokenChar(p[m])

\* Variant: a prefix group that may be empty, (.*?).
PrefixLengthsStar(t) ==
    {k \in 0..Len(t) :
        /\ \A m \in 1..k : t[m] \notin LineTerminator
        /\ TailMatches(SubSeq(t, k + 1, Len(t)))}

\* Prefix lengths for which the whole pattern matches.
PrefixLengths(t) ==
    {k \in 1..Len(t) :
        /\ \A m \in 1..k : PrefixChar(t[m])
        /\ TailMatches(SubSeq(t, k + 1, Len(t)))}

\* The lazy quantifier +? keeps the shortest prefix that lets the rest match.
ChoosePrefix(K) == CHOOSE k \in K : \A m \in K : k <= m

\* trimmed.match(...): groups 1 and 2, or NoMatch.
SpeakerMatch(t) ==
    LET K == PrefixLengths(t)
    IN  IF K = {} THEN NoMatch
        ELSE LET k == ChoosePrefix(K)
                 r == SubSeq(t, k + 1, Len(t))
                 p == SubSeq(r, LeadingSpace(r) + 1, Len(r))
             IN  [matched |-> TRUE,
                  prefix  |-> SubSeq(t, 1, k),
                  token   |-> SubSeq(p, 2, Len(p) - 1)]

\* JavaScript truthiness of a string-or-null value.
Truthy(v) == v # Null /\ v # <<>>

\* Variant: a guard that tests the accumulated text only.
FlushGuardTextOnly(speaker, text) == text # <<>>

\* The condition guarding both segments.push calls.
FlushGuard(speaker, text) == Truthy(speaker) /\ text # <<>>

\* The object pushed onto segments.
Segment(speaker, text) == [speaker |-> speaker, text |-> Trim(text)]

\* Variant: continuation appended without the separating space.
ContinueNoSpace(text, trimmed) == text \o trimmed

\* currentText += ' ' + trimmed
Continue(text, trimmed) == text \o <<" ">> \o trimmed

\* ------------------------------------------------------------------------
\* State
\* ------------------------------------------------------------------------
VARIABLES
    content,         \* format-gmr.js: the transcript file's text
    speakers,        \* the header's speaker list
    lines,           \* parseTranscript: text.split('\n')
    idx,             \* position of the for-of loop in lines
    currentSpeaker,
    currentText,
    segments,
    pc,              \* position of format-gmr.js
    argv2,           \* transcribe: process.argv[2]
    audioDirExists,
    transcriptsDirExists,
    audioFiles,      \* names present in audio/
    listed,          \* names printed as available files
    execInvoked,     \* whether the whisper command was started
    report,          \* what the exec callback printed
    exitCode,        \* -1 while the process runs
    tpc              \* position of transcribe

fvars == <<content, speakers, lines, idx, currentSpeaker, currentText, segments, pc>>
tvars == <<argv2, audioDirExists, transcriptsDirExists, audioFiles, listed,
           execInvoked, report, exitCode, tpc>>
vars == <<content, speakers, lines, idx, currentSpeaker, currentText, segments, pc,
          argv2, audioDirExists, transcriptsDirExists, audioFiles, listed,
          execInvoked, report, exitCode, tpc>>

\* ------------------------------------------------------------------------
\* Inputs
\* ------------------------------------------------------------------------
RECURSIVE JoinLines(_)
JoinLines(ls) ==
    IF Len(ls) = 1 THEN ls[1] ELSE ls[1] \o <<"\n">> \o JoinLines(Tail(ls))

CharTexts == UNION {[1..n -> Alphabet] : n \in 0..MaxLen}

LineTexts == {JoinLines(ls) : ls \in UNION {[1..n -> SampleLines] : n \in 1..MaxLines}}

Texts == CharTexts \cup LineTexts

\* File names that may be given or be present in audio/.
FileNames == {"a.mp3", "b.wav", ".DS_Store"}

\* process.argv[2] when no argument is given.
Undefined == "undefined"

HiddenName(f) == f = ".DS_Store"

\* ------------------------------------------------------------------------
\* format-gmr.js
\* ------------------------------------------------------------------------
FormatIdle ==
    /\ content = <<>>
    /\ speakers = Null
    /\ lines = <<>>
    /\ idx = 0
    /\ currentSpeaker = Null
    /\ currentText = <<>>
    /\ segments = <<>>
    /\ pc = "idle"

TranscribeIdle ==
    /\ argv2 = Undefined
    /\ audioDirExists = TRUE
    /\ transcriptsDirExists = TRUE
    /\ audioFiles = {}
    /\ listed = {}
    /\ execInvoked = FALSE
    /\ report = "none"
    /\ exitCode = -1
    /\ tpc = "idle"

\* const content = fs.readFileSync(inputPath, 'utf8')
Init ==
    /\ content \in Texts
    /\ speakers = Null
    /\ lines = <<>>
    /\ idx = 0
    /\ currentSpeaker = Null
    /\ currentText = <<>>
    /\ segments = <<>>
    /\ pc = "read"
    /\ TranscribeIdle

\* const speakers = extractSpeakers(content)
ExtractSpeakers ==
    /\ pc = "read"
    /\ speakers' = extractSpeakers(content)
    /\ pc' = "extracted"
    /\ UNCHANGED <<content, lines, idx, currentSpeaker, currentText, segments>>
    /\ UNCHANGED tvars

\* parseTranscript entry: split the text and initialise the running state.
ParseStart ==
    /\ pc = "extracted"
    /\ lines' = Split(content)
    /\ idx' = 1
    /\ currentSpeaker' = Null
    /\ currentText' = <<>>
    /\ segments' = <<>>
    /\ pc' = "loop"
    /\ UNCHANGED <<content, speakers>>
    /\ UNCHANGED tvars

\* One iteration of the for-of loop whose line is empty after trimming.
SkipBlank ==
    /\ pc = "loop"
    /\ idx <= Len(lines)
    /\ Trim(lines[idx]) = <<>>
    /\ idx' = idx + 1
    /\ UNCHANGED <<content, speakers, lines, currentSpeaker, currentText, segments, pc>>
    /\ UNCHANGED tvars

\* One iteration whose trimmed line matches the label pattern.
LabelLine ==
    /\ pc = "loop"
    /\ idx <= Len(lines)
    /\ LET trimmed == Trim(lines[idx])
           speakerMatch == SpeakerMatch(trimmed)
       IN  /\ trimmed # <<>>
           /\ speakerMatch.matched
           /\ segments' = IF FlushGuard(currentSpeaker, currentText)
                          THEN Append(segments, Segment(currentSpeaker, currentText))
                          ELSE segments
           /\ currentSpeaker' = speakerMatch.token
           /\ currentText' = speakerMatch.prefix
    /\ idx' = idx + 1
    /\ UNCHANGED <<content, speakers, lines, pc>>
    /\ UNCHANGED tvars

\* One iteration whose trimmed line does not match the label pattern.
ContinuationLine ==
    /\ pc = "loop"
    /\ idx <= Len(lines)
    /\ LET trimmed == Trim(lines[idx])
       IN  /\ trimmed # <<>>
           /\ ~SpeakerMatch(trimmed).matched
           /\ currentText' = Continue(currentText, trimmed)
    /\ idx' = idx + 1
    /\ UNCHANGED <<content, speakers, lines, currentSpeaker, segments, pc>>
    /\ UNCHANGED tvars

\* After the loop: add the final segment and return.
FinalFlush ==
    /\ pc = "loop"
    /\ idx > Len(lines)
    /\ segments' = IF FlushGuard(currentSpeaker, currentText)
                   THEN Append(segments, Segment(currentSpeaker, currentText))
                   ELSE segments
    /\ pc' = "done"
    /\ UNCHANGED <<content, speakers, lines, idx, currentSpeaker, currentText>>
    /\ UNCHANGED tvars

Next ==
    \/ ExtractSpeakers
    \/ ParseStart
    \/ SkipBlank
    \/ LabelLine
    \/ ContinuationLine
    \/ FinalFlush

Spec == Init /\ [][Next]_vars

\* ------------------------------------------------------------------------
\* transcribe
\* ------------------------------------------------------------------------
TranscribeInit ==
    /\ FormatIdle
    /\ argv2 \in FileNames \cup {Undefined, ""}
    /\ audioDirExists \in BOOLEAN
    /\ transcriptsDirExists \in BOOLEAN
    /\ audioFiles \in SUBSET FileNames
    /\ (~audioDirExists => audioFiles = {})
    /\ listed = {}
    /\ execInvoked = FALSE
    /\ report = "none"
    /\ exitCode = -1
    /\ tpc = "dirs"

\* Create audio/ and transcripts/ when they do not exist.
SetupDirs ==
    /\ tpc = "dirs"
    /\ audioDirExists' = TRUE
    /\ transcriptsDirExists' = TRUE
    /\ tpc' = "arg"
    /\ UNCHANGED <<argv2, audioFiles, listed, execInvoked, report, exitCode>>
    /\ UNCHANGED fvars

\* !audioFileName: undefined and the empty string are falsy.
ArgMissing == argv2 = Undefined \/ argv2 = ""

\* Exit status of the two early process.exit calls.
UsageExit == 1

UsageError ==
    /\ tpc = "arg"
    /\ ArgMissing
    /\ exitCode' = UsageExit
    /\ tpc' = "exited"
    /\ UNCHANGED <<argv2, audioDirExists, transcriptsDirExists, audioFiles, listed,
                   execInvoked, report>>
    /\ UNCHANGED fvars

ArgGiven ==
    /\ tpc = "arg"
    /\ ~ArgMissing
    /\ tpc' = "file"
    /\ UNCHANGED <<argv2, audioDirExists, transcriptsDirExists, audioFiles, listed,
                   execInvoked, report, exitCode>>
    /\ UNCHANGED fvars

\* fs.existsSync(path.join(audioDir, audioFileName))
AudioFileExists == argv2 \in audioFiles

FileNotFound ==
    /\ tpc = "file"
    /\ ~AudioFileExists
    /\ listed' = {f \in audioFiles : ~HiddenName(f)}
    /\ exitCode' = UsageExit
    /\ tpc' = "exited"
    /\ UNCHANGED <<argv2, audioDirExists, transcriptsDirExists, audioFiles,
                   execInvoked, report>>
    /\ UNCHANGED fvars

\* exec(whisperCommand, callback)
StartExec ==
    /\ tpc = "file"
    /\ AudioFileExists
    /\ execInvoked' = TRUE
    /\ tpc' = "waiting"
    /\ UNCHANGED <<argv2, audioDirExists, transcriptsDirExists, audioFiles, listed,
                   report, exitCode>>
    /\ UNCHANGED fvars

\* Variant: an engine failure ends the process with status 1.
CallbackExitOnError(error) == IF error THEN 1 ELSE 0

\* Exit status once the callback has returned and the event loop is empty.
CallbackExit(error) == 0

\* The exec callback; the process then ends on its own.
ExecCallback ==
    /\ tpc = "waiting"
    /\ \E error \in BOOLEAN, stderr \in BOOLEAN :
          /\ report' = IF error THEN "failed"
                       ELSE IF stderr THEN "complete-with-stderr"
                       ELSE "complete"
          /\ exitCode' = CallbackExit(error)
    /\ tpc' = "exited"
    /\ UNCHANGED <<argv2, audioDirExists, transcriptsDirExists, audioFiles, listed,
                   execInvoked>>
    /\ UNCHANGED fvars

TranscribeNext ==
    \/ SetupDirs
    \/ UsageError
    \/ ArgGiven
    \/ FileNotFound
    \/ StartExec
    \/ ExecCallback

TranscribeSpec == TranscribeInit /\ [][TranscribeNext]_vars

\* ------------------------------------------------------------------------
\* Vocabulary of the properties
\* ------------------------------------------------------------------------
\* A token free of whitespace and parentheses.
IsSingleToken(tok) ==
    /\ tok # <<>>
    /\ \A k \in 1..Len(tok) : tok[k] \notin WhiteSpace \cup {"(", ")"}

\* Position of the last "(" of t, 0 when there is none.
LastOpen(t) ==
    LET O == {i \in 1..Len(t) : t[i] = "("}
    IN  IF O = {} THEN 0 ELSE CHOOSE i \in O : \A k \in O : k <= i

\* Position of the last ")" of t, 0 when there is none.
LastClose(t) ==
    LET C == {i \in 1..Len(t) : t[i] = ")"}
    IN  IF C = {} THEN 0 ELSE CHOOSE i \in C : \A k \in C : k <= i

\* t ends with a parenthesized single token.
EndsWithSingleToken(t) ==
    /\ Len(t) >= 3
    /\ t[Len(t)] = ")"
    /\ LastOpen(t) > 0
    /\ IsSingleToken(SubSeq(t, LastOpen(t) + 1, Len(t) - 1))

\* For a line that ends with a parenthesized single token: the token and
\* what stands before its parenthesis.
LabelToken(t) == SubSeq(t, LastOpen(t) + 1, Len(t) - 1)
SpokenPart(t) == SubSeq(t, 1, LastOpen(t) - 1)

\* '<non-empty spoken text> (<TOKEN>)'
WellFormedLine(t) == EndsWithSingleToken(t) /\ Trim(SpokenPart(t)) # <<>>

\* '(<TOKEN>)' with nothing before it.
IsBareLabel(t) == EndsWithSingleToken(t) /\ LastOpen(t) = 1

\* The trimmed non-blank lines, in input order.
NonBlank(ls) ==
    LET Kept(t) == t # <<>>
    IN  SelectSeq([k \in 1..Len(ls) |-> Trim(ls[k])], Kept)

\* The line the loop is about to process, trimmed.
ThisLine == Trim(lines[idx])
AtLine == pc = "loop" /\ idx <= Len(lines)

SegmentSpeakers == {segments[k].speaker : k \in 1..Len(segments)}

HasWhiteSpace(s) == \E k \in 1..Len(s) : s[k] \in WhiteSpace

\* ------------------------------------------------------------------------
\* C1
\* ------------------------------------------------------------------------
\* C1: when no trimmed line of the input ends with a parenthesized single
\* token, parseTranscript returns the empty sequence.
C1_NoLabelNoSegments ==
    (pc = "done" /\ \A k \in 1..Len(lines) : ~EndsWithSingleToken(Trim(lines[k])))
        => segments = <<>>

\* ------------------------------------------------------------------------
\* C2
\* ------------------------------------------------------------------------
\* C2: when every non-blank line is '<spoken text> (<TOKEN>)', the result has
\* one segment per line, in order, with speaker TOKEN and the trimmed spoken
\* text, and equal speakers are not merged.
C2_OneSegmentPerLine ==
    LET nb == NonBlank(lines)
    IN  (pc = "done" /\ \A k \in 1..Len(nb) : WellFormedLine(nb[k]))
            => segments = [k \in 1..Len(nb) |->
                              [speaker |-> LabelToken(nb[k]),
                               text    |-> Trim(SpokenPart(nb[k]))]]

\* ------------------------------------------------------------------------
\* C3
\* ------------------------------------------------------------------------
\* C3: every emitted segment's speaker is non-empty and free of whitespace.
C3_SpeakerIsSingleWord ==
    \A k \in 1..Len(segments) :
        /\ segments[k].speaker # <<>>
        /\ ~HasWhiteSpace(segments[k].speaker)

\* ------------------------------------------------------------------------
\* C4
\* ------------------------------------------------------------------------
\* A line with a parenthetical holding whitespace, then more text free of
\* parentheses, then a final single-token label; no line terminator inside.
AsideThenLabel(t) ==
    /\ EndsWithSingleToken(t)
    /\ \A k \in 1..Len(t) : t[k] \notin LineTerminator
    /\ LET P == SpokenPart(t)
           c == LastClose(P)
       IN  /\ c > 0
           /\ \E o \in 1..(c - 1), e \in 2..c :
                 /\ o < e
                 /\ P[o] = "(" /\ P[e] = ")"
                 /\ \A m \in (o + 1)..(e - 1) : P[m] \notin {"(", ")"}
                 /\ \E m \in (o + 1)..(e - 1) : P[m] \in WhiteSpace
           /\ \A m \in (c + 1)..Len(P) : P[m] # "("
           /\ \E m \in (c + 1)..Len(P) : P[m] \notin WhiteSpace

\* C4 as stated: such a line is continuation text; it flushes nothing, keeps
\* currentSpeaker and is appended in full to currentText.
C4_AsideLineIsContinuation ==
    [][ (AtLine /\ AsideThenLabel(ThisLine))
            => /\ segments' = segments
               /\ currentSpeaker' = currentSpeaker
               /\ currentText' = currentText \o <<" ">> \o ThisLine ]_vars

\* C4 amended: such a line is a label line; the segment in progress, if any,
\* is flushed, currentSpeaker becomes the final token and currentText becomes
\* everything before the final label, the earlier parenthetical included.
C4_AsideLineIsLabel ==
    [][ (AtLine /\ AsideThenLabel(ThisLine))
            => /\ Len(segments') = Len(segments) + (IF currentSpeaker = Null THEN 0 ELSE 1)
               /\ currentSpeaker' = LabelToken(ThisLine)
               /\ currentText' = TrimEnd(SpokenPart(ThisLine)) ]_vars

C4_Witness ==
    /\ pc = "loop"
    /\ idx > 2
    /\ AsideThenLabel(Trim(lines[idx - 1]))
    /\ currentSpeaker = LabelToken(Trim(lines[idx - 1]))
    /\ Len(segments) = 1

\* ------------------------------------------------------------------------
\* C5
\* ------------------------------------------------------------------------
\* C5: a bare '(TOKEN)' line emits nothing and does not become the speaker,
\* no emitted segment has an empty text, and an input of bare label lines
\* only gives no segment.
C5_BareLabelsDropped ==
    [][ /\ (AtLine /\ IsBareLabel(ThisLine))
              => (segments' = segments /\ currentSpeaker' = currentSpeaker)
        /\ \A k \in 1..Len(segments') : segments'[k].text # <<>>
        /\ (pc' = "done" /\ \A k \in 1..Len(lines) : IsBareLabel(Trim(lines[k])))
              => segments' = <<>> ]_vars

C5_Witness ==
    /\ pc = "done"
    /\ Len(lines) >= 2
    /\ \A k \in 1..Len(lines) : IsBareLabel(Trim(lines[k]))
    /\ segments = <<>>

\* ------------------------------------------------------------------------
\* C6
\* ------------------------------------------------------------------------
\* The parenthesized spans made only of non-whitespace, non-parenthesis
\* characters.
CleanSpans(text) ==
    {SubSeq(text, i + 1, j - 1) : <<i, j>> \in
        {ij \in (1..Len(text)) \X (1..Len(text)) :
            /\ ij[1] < ij[2]
            /\ text[ij[1]] = "(" /\ text[ij[2]] = ")"
            /\ IsSingleToken(SubSeq(text, ij[1] + 1, ij[2] - 1))}}

\* C6: extractSpeakers returns exactly the clean spans, deduplicated, sorted
\* and joined with ', '.
C6_SpeakersAreCleanSpans ==
    pc # "read" => speakers = JoinComma(SortSet(CleanSpans(content)))

\* ------------------------------------------------------------------------
\* C7
\* ------------------------------------------------------------------------
\* C7: the speaker list is the sorted set of the emitted segments' speakers.
C7_SpeakersMatchSegments ==
    pc = "done" => speakers = JoinComma(SortSet(SegmentSpeakers))

\* ------------------------------------------------------------------------
\* C8
\* ------------------------------------------------------------------------
\* C8: transcribe exits 1 exactly when the argument is missing or the named
\* file is not in audio/, exits 0 otherwise (engine failure included), and
\* never starts the engine in a run that exits 1.
C8_ExitCodes ==
    tpc = "exited"
        => /\ exitCode \in {0, 1}
           /\ exitCode = 1 <=> (argv2 \in {Undefined, ""} \/ argv2 \notin audioFiles)
           /\ exitCode = 1 => ~execInvoked
           /\ exitCode = 0 => execInvoked

C8_Witness ==
    /\ tpc = "exited"
    /\ report = "failed"
    /\ execInvoked
    /\ exitCode = 0

\* ------------------------------------------------------------------------
\* C9 and C10
\* ------------------------------------------------------------------------
IsLabelLine(t) == SpeakerMatch(t).matched

\* Positions of the label lines among the non-blank lines, ascending.
LabelPositions(nb) ==
    LET IsAt(k) == IsLabelLine(nb[k])
    IN  SelectSeq([k \in 1..Len(nb) |-> k], IsAt)

\* The lines from..to of nb, each preceded by a single space.
RECURSIVE SpaceJoined(_, _, _)
SpaceJoined(nb, from, to) ==
    IF from > to THEN <<>>
    ELSE <<" ">> \o nb[from] \o SpaceJoined(nb, from + 1, to)

\* One segment per label line: its token, and its spoken prefix followed by
\* the lines up to the next label line or the end of input.
TurnsOf(nb) ==
    LET P == LabelPositions(nb)
    IN  [m \in 1..Len(P) |->
            LET i == P[m]
                next == IF m < Len(P) THEN P[m + 1] ELSE Len(nb) + 1
            IN  [speaker |-> SpeakerMatch(nb[i]).token,
                 text    |-> SpeakerMatch(nb[i]).prefix
                                 \o SpaceJoined(nb, i + 1, next - 1)]]

\* The non-blank lines from the first label line on.
FromFirstLabel(nb) ==
    LET P == LabelPositions(nb)
    IN  IF P = <<>> THEN <<>> ELSE SubSeq(nb, P[1], Len(nb))

\* C9: while currentSpeaker is null nothing is flushed, the first label line
\* overwrites the accumulated text, and the result is the one obtained from
\* the input without the lines before the first label line.
C9_LeadingTextDiscarded ==
    [][ /\ (pc = "loop" /\ currentSpeaker = Null) => segments' = <<>>
        /\ (AtLine /\ currentSpeaker = Null /\ currentSpeaker' # Null)
              => currentText' = SpeakerMatch(ThisLine).prefix
        /\ pc' = "done" => segments' = TurnsOf(FromFirstLabel(NonBlank(lines))) ]_vars

C9_Witness ==
    /\ pc = "done"
    /\ segments # <<>>
    /\ LET nb == NonBlank(lines)
       IN  nb # <<>> /\ ~IsLabelLine(nb[1])

\* C10: each segment's text is its label line's spoken prefix followed by the
\* later non-blank non-label lines up to the next label line or the end,
\* joined by single spaces; blank lines are ignored and the segment in
\* progress at the end is emitted last.
C10_SegmentText ==
    pc = "done" => segments = TurnsOf(NonBlank(lines))

C10_Witness ==
    /\ pc = "done"
    /\ Len(lines) = 3
    /\ IsLabelLine(Trim(lines[1]))
    /\ Trim(lines[2]) = <<>>
    /\ Trim(lines[3]) # <<>>
    /\ ~IsLabelLine(Trim(lines[3]))
    /\ Len(segments) = 1
    /\ segments[1].text = SpeakerMatch(Trim(lines[1])).prefix \o <<" ">> \o Trim(lines[3])

====
